---- MODULE Spec2Model ----
(***************************************************************************)
(* iran-hijri: conversions among the Jalaali, Gregorian and Hijri          *)
(* calendars through the Julian Day Number, with an official table of      *)
(* Hijri month lengths that takes precedence over the tabular 30-year      *)
(* arithmetic.                                                             *)
(*                                                                         *)
(* Every function of the library is pure.  The state machine applies the   *)
(* functions to an input drawn in Init and, up to MaxSteps calls, to the   *)
(* value the previous call returned, and records every call in hist.       *)
(* Spec calls the codecs and the facade of index.js; UnitSpec calls the    *)
(* functions below the facade one by one, on a wider set of inputs.        *)
(*                                                                         *)
(* Values are records tagged by kind:                                      *)
(*   "jalaali" | "gregorian" | "hijri"  a date with fields y, m, d         *)
(*             (a facade result also carries source and weekday)           *)
(*   "jdn"     a Julian Day Number j                                       *)
(*   "days"    a day count n                                               *)
(*   "number"  a number n, "bool" a boolean b, "null", "nan"               *)
(*   "error"   a thrown Error with message msg                             *)
(* JavaScript null is NULL where a number is expected.                     *)
(***************************************************************************)
EXTENDS Integers, Sequences, FiniteSets, TLC

VARIABLES officialData, input, hist

vars == <<officialData, input, hist>>

(***************************************************************************)
(* Bounds of the model.                                                    *)
(***************************************************************************)
MaxSteps == 1
JalaaliSpan == 1
GregorianSpan == 1
HijriSpan == 1
JdnMargin == 3

(***************************************************************************)
(* JavaScript arithmetic                                                   *)
(***************************************************************************)
\* a % b of JavaScript: the remainder takes the sign of the dividend
jsRem(a, b) == IF a >= 0 THEN a % b ELSE -((-a) % b)

\* Math.floor(a / b) for b > 0
floorDiv(a, b) == a \div b

NULL == -1

\* null coerced to a number in a comparison or a subtraction
ToNumber(v) == IF v = NULL THEN 0 ELSE v

Throw(m) == [kind |-> "error", msg |-> m]

IsError(v) == v.kind = "error"

(***************************************************************************)
(* utils.js                                                                *)
(***************************************************************************)
breaks == <<-61, 9, 38, 199, 426, 686, 756, 818, 1111, 1181, 1210, 1635, 2060,
            2097, 2192, 2262, 2324, 2394, 2456, 3178>>

\* the scan of the break table in isJalaaliLeapYear: <<jp, jump>> after the loop
RECURSIVE leapYearScan(_, _, _, _)
leapYearScan(jy, i, jp, jump) ==
    IF i > Len(breaks) THEN <<jp, jump>>
    ELSE LET jm == breaks[i]
         IN  IF jy < jm THEN <<jp, jm - jp>>
             ELSE leapYearScan(jy, i + 1, jm, jm - jp)

isJalaaliLeapYear(jy) ==
    LET s    == leapYearScan(jy, 2, breaks[1], 0)
        jp   == s[1]
        jump == s[2]
        n0   == jy - jp
        n    == IF jump - n0 < 6
                THEN n0 - jump + ((jump + 4) - floorDiv(jump + 4, 33) * 33)
                ELSE n0
        aux0 == IF floorDiv(jsRem(n + 1, 33) - 1, 4) - floorDiv(n + 1, 33) = 0
                THEN 1 ELSE 0
        aux  == IF jsRem(n, 33) = 0 /\ aux0 = 0 THEN 1 ELSE aux0
    IN  aux = 1

isGregorianLeapYear(year) ==
    (jsRem(year, 4) = 0 /\ jsRem(year, 100) # 0) \/ jsRem(year, 400) = 0

monthDays == <<31, 28, 31, 30, 31, 30, 31, 31, 30, 31, 30, 31>>

\* getGregorianMonthDays giving February 28 days in every year
getGregorianMonthDays_noLeap(year, month) == monthDays[month]

getGregorianMonthDays(year, month) ==
    IF month = 2 /\ isGregorianLeapYear(year) THEN 29 ELSE monthDays[month]

getJalaaliMonthDays(year, month) ==
    IF month <= 6 THEN 31
    ELSE IF month <= 11 THEN 30
    ELSE IF isJalaaliLeapYear(year) THEN 30 ELSE 29

\* isValidHijriDate without the upper limit of the month
isValidHijriDate_noMonthUpper(year, month, day) ==
    IF year < 1 \/ year > 5000 THEN FALSE
    ELSE IF month < 1 THEN FALSE
    ELSE IF day < 1 \/ day > 30 THEN FALSE
    ELSE TRUE

isValidHijriDate(year, month, day) ==
    IF year < 1 \/ year > 5000 THEN FALSE
    ELSE IF month < 1 \/ month > 12 THEN FALSE
    ELSE IF day < 1 \/ day > 30 THEN FALSE
    ELSE TRUE

isValidJalaaliDate(year, month, day) ==
    IF year < 1 \/ month < 1 \/ month > 12 \/ day < 1 THEN FALSE
    ELSE day <= getJalaaliMonthDays(year, month)

isValidGregorianDate(year, month, day) ==
    IF year < 1 \/ month < 1 \/ month > 12 \/ day < 1 THEN FALSE
    ELSE day <= getGregorianMonthDays(year, month)

\* Math.floor((gy - 1) * 365.25 + Math.floor((gy - 1) / 400) - Math.floor((gy - 1) / 100));
\* 365.25 = 1461 / 4 and the two inner terms are integers
yearBase(gy) ==
    floorDiv((gy - 1) * 1461, 4) + floorDiv(gy - 1, 400) - floorDiv(gy - 1, 100)

\* the scan of the break table in jalaaliToJulian: <<jp, jump>> after the loop
RECURSIVE julianScan(_, _, _, _)
julianScan(jy, i, jp, jump) ==
    IF i > Len(breaks) THEN <<jp, jump>>
    ELSE LET jm_val == breaks[i]
         IN  IF jy < jm_val THEN <<jp, jm_val - jp>>
             ELSE julianScan(jy, i + 1, jm_val, jm_val - jp)

\* sal: the days of the months before jm
RECURSIVE jalaaliSal(_, _)
jalaaliSal(jy, jm) ==
    IF jm <= 1 THEN 0
    ELSE jalaaliSal(jy, jm - 1) + getJalaaliMonthDays(jy, jm - 1)

\* jalaaliLeapFlag taking every fourth year of the 33-year count as leap
jalaaliLeapFlag_everyFourth(jy) ==
    LET s     == julianScan(jy, 2, breaks[1], 0)
        jp    == s[1]
        n     == jy - jp
    IN  IF jsRem(n, 4) = 0 THEN 1 ELSE 0

\* the variable leap that jalaaliToJulian computes inline before it chooses
\* march
jalaaliLeapFlag(jy) ==
    LET s     == julianScan(jy, 2, breaks[1], 0)
        jp    == s[1]
        jump  == s[2]
        n0    == jy - jp
        n     == IF jump - n0 < 6
                 THEN n0 - jump + ((jump + 4) - floorDiv(jump + 4, 33) * 33)
                 ELSE n0
        leap0 == IF floorDiv(jsRem(n + 1, 33) - 1, 4) - floorDiv(n + 1, 33) = 0
                 THEN 1 ELSE 0
    IN  IF jsRem(n, 33) = 0 /\ leap0 = 0 THEN 1 ELSE leap0

jalaaliToJulian(jy, jm, jd) ==
    LET leap  == jalaaliLeapFlag(jy)
        gy    == jy + 621
        march == IF leap = 1 THEN 20 ELSE 21
        sal   == jalaaliSal(jy, jm)
    IN  yearBase(gy) + march + sal + jd + 1948321

\* the loop that lowers gy while the start of the year is after julianDay
RECURSIVE jalaaliYearDown(_, _)
jalaaliYearDown(julianDay, gy) ==
    IF yearBase(gy) + 1948321 > julianDay
    THEN jalaaliYearDown(julianDay, gy - 1)
    ELSE gy

\* the month loop of julianToJalaali: <<jm, dayOfYear>> after the loop
RECURSIVE jalaaliMonthWalk(_, _, _)
jalaaliMonthWalk(jy, jm, dayOfYear) ==
    IF jm > 12 THEN <<jm, dayOfYear>>
    ELSE LET md == getJalaaliMonthDays(jy, jm)
         IN  IF dayOfYear <= md THEN <<jm, dayOfYear>>
             ELSE jalaaliMonthWalk(jy, jm + 1, dayOfYear - md)

julianToJalaali(julianDay) ==
    LET gy0        == floorDiv((julianDay - 1948321) * 4, 1461)
        gy         == jalaaliYearDown(julianDay, gy0)
        jy         == gy - 621
        march      == IF isJalaaliLeapYear(jy) THEN 20 ELSE 21
        farvardin1 == yearBase(gy) + march + 1948321
        w          == jalaaliMonthWalk(jy, 1, julianDay - farvardin1 + 1)
    IN  [kind |-> "jalaali", y |-> jy, m |-> w[1], d |-> w[2]]

\* gregorianToJulian without the century terms: a leap year every fourth year
gregorianToJulian_everyFourth(gy, gm, gd) ==
    LET a == floorDiv(14 - gm, 12)
        y == gy + 4800 - a
        m == gm + 12 * a - 3
    IN  gd + floorDiv(153 * m + 2, 5) + 365 * y + floorDiv(y, 4) - 32083

gregorianToJulian(gy, gm, gd) ==
    LET a == floorDiv(14 - gm, 12)
        y == gy + 4800 - a
        m == gm + 12 * a - 3
    IN  gd + floorDiv(153 * m + 2, 5) + 365 * y + floorDiv(y, 4)
           - floorDiv(y, 100) + floorDiv(y, 400) - 32045

julianToGregorian(julianDay) ==
    LET a == julianDay + 32044
        b == floorDiv(4 * a + 3, 146097)
        c == a - floorDiv(146097 * b, 4)
        d == floorDiv(4 * c + 3, 1461)
        e == c - floorDiv(1461 * d, 4)
        m == floorDiv(5 * e + 2, 153)
    IN  [kind |-> "gregorian",
         y |-> 100 * b + d - 4800 + floorDiv(m, 10),
         m |-> m + 3 - 12 * floorDiv(m, 10),
         d |-> e - floorDiv(153 * m + 2, 5) + 1]

arabicDays == <<"al-ithnayn", "ath-thulatha", "al-arbia", "al-khamis",
                "al-jumua", "as-sabt", "al-ahad">>

persianDays == <<"doshanbe", "seshanbe", "chaharshanbe", "panjshanbe",
                 "jome", "shanbe", "yekshanbe">>

englishDays == <<"Monday", "Tuesday", "Wednesday", "Thursday", "Friday",
                 "Saturday", "Sunday">>

getArabicWeekday(julianDay) == arabicDays[jsRem(julianDay, 7) + 1]

getPersianWeekday(julianDay) == persianDays[jsRem(julianDay, 7) + 1]

getEnglishWeekday(julianDay) == englishDays[jsRem(julianDay, 7) + 1]

\* getWeekdayNumber counting from Sunday
getWeekdayNumber_fromSunday(julianDay) == jsRem(julianDay + 1, 7)

getWeekdayNumber(julianDay) == jsRem(julianDay, 7)

(***************************************************************************)
(* officialData.js                                                         *)
(***************************************************************************)
\* the table of src/officialData.js: Hijri year -> month lengths
OfficialTable ==
    (1423 :> <<29, 30, 30, 29, 29, 30, 29, 30, 29, 30, 29, 30>>) @@
    (1424 :> <<30, 29, 30, 29, 30, 29, 30, 29, 30, 29, 30, 29>>) @@
    (1425 :> <<30, 29, 30, 30, 29, 30, 30, 29, 29, 30, 29, 30>>) @@
    (1426 :> <<29, 29, 30, 29, 30, 30, 30, 29, 30, 30, 29, 29>>) @@
    (1427 :> <<30, 29, 29, 30, 29, 30, 30, 30, 29, 30, 29, 30>>) @@
    (1428 :> <<29, 30, 29, 29, 29, 30, 30, 29, 30, 30, 30, 29>>) @@
    (1429 :> <<30, 29, 30, 29, 29, 29, 30, 30, 29, 30, 30, 29>>) @@
    (1430 :> <<30, 30, 29, 29, 30, 29, 30, 29, 29, 30, 30, 29>>) @@
    (1431 :> <<30, 30, 29, 30, 29, 30, 29, 30, 29, 29, 30, 29>>) @@
    (1432 :> <<30, 30, 29, 30, 30, 30, 29, 30, 29, 29, 30, 29>>) @@
    (1433 :> <<29, 30, 29, 30, 30, 30, 29, 30, 29, 30, 29, 30>>) @@
    (1434 :> <<29, 29, 30, 29, 30, 30, 29, 30, 30, 29, 30, 29>>) @@
    (1435 :> <<29, 30, 29, 30, 29, 30, 29, 30, 30, 30, 29, 30>>) @@
    (1436 :> <<29, 30, 29, 29, 30, 29, 30, 29, 30, 29, 30, 30>>) @@
    (1437 :> <<29, 30, 30, 29, 30, 29, 29, 30, 29, 29, 30, 30>>) @@
    (1438 :> <<29, 30, 30, 30, 29, 30, 29, 29, 30, 29, 29, 30>>) @@
    (1439 :> <<29, 30, 30, 30, 30, 29, 30, 29, 29, 30, 29, 29>>) @@
    (1440 :> <<30, 29, 30, 30, 30, 29, 30, 30, 29, 29, 30, 29>>) @@
    (1441 :> <<29, 30, 29, 30, 30, 29, 30, 30, 29, 30, 29, 30>>) @@
    (1442 :> <<29, 29, 30, 29, 30, 29, 30, 30, 29, 30, 30, 29>>) @@
    (1443 :> <<29, 30, 30, 29, 29, 30, 29, 30, 30, 29, 30, 29>>) @@
    (1444 :> <<30, 30, 29, 30, 29, 29, 30, 29, 30, 29, 30, 29>>) @@
    (1445 :> <<30, 30, 30, 29, 30, 29, 29, 30, 29, 30, 29, 29>>) @@
    (1446 :> <<30, 30, 30, 29, 30, 30, 29, 30, 29, 29, 29, 30>>) @@
    (1447 :> <<29, 30, 30, 29, 30, 30, 30, 29, 30, 29, 29, 29>>) @@
    (1448 :> <<30, 29, 30, 29, 30, 30, 30, 29, 30, 29>>)

\* array.reduce((sum, days) => sum + days, 0)
RECURSIVE sumSeq(_)
sumSeq(s) == IF s = <<>> THEN 0 ELSE s[1] + sumSeq(Tail(s))

Min(S) == CHOOSE x \in S : \A z \in S : x <= z

Max(S) == CHOOSE x \in S : \A z \in S : x >= z

getOfficialDataRange ==
    IF DOMAIN officialData = {} THEN [kind |-> "null"]
    ELSE [kind |-> "range",
          minYear |-> Min(DOMAIN officialData),
          maxYear |-> Max(DOMAIN officialData)]

hasOfficialData(year, month) ==
    IF year \notin DOMAIN officialData THEN FALSE
    ELSE IF month < 1 \/ month > 12 THEN FALSE
    ELSE IF month > Len(officialData[year]) THEN FALSE
    ELSE TRUE

getOfficialMonthLength(year, month) ==
    IF ~hasOfficialData(year, month) THEN NULL
    ELSE officialData[year][month]

getOfficialYearLength(year) ==
    IF year \notin DOMAIN officialData THEN NULL
    ELSE sumSeq(officialData[year])

\* for (y = range.minYear; y < year; y++): the days of the complete years, or
\* NULL when a year of the span has no entry
RECURSIVE completeYearsDays(_, _)
completeYearsDays(y, year) ==
    IF y >= year THEN 0
    ELSE IF y \notin DOMAIN officialData THEN NULL
    ELSE LET rest == completeYearsDays(y + 1, year)
         IN  IF rest = NULL THEN NULL ELSE sumSeq(officialData[y]) + rest

\* for (m = 0; m < month - 1; m++) totalDays += officialData[year][m]
RECURSIVE completeMonthsDays(_, _)
completeMonthsDays(year, month) ==
    IF month <= 1 THEN 0
    ELSE completeMonthsDays(year, month - 1) + officialData[year][month - 1]

\* a "number", "null", or "nan": an index beyond the recorded months reads
\* undefined, and a number plus undefined is NaN
getDaysFromEpochOfficial(year, month, day) ==
    LET range == getOfficialDataRange
    IN  IF range.kind = "null" \/ year < range.minYear \/ year > range.maxYear
        THEN [kind |-> "null"]
        ELSE LET totalDays == completeYearsDays(range.minYear, year)
             IN  IF totalDays = NULL THEN [kind |-> "null"]
                 ELSE IF year \notin DOMAIN officialData THEN [kind |-> "null"]
                 ELSE IF month - 1 > Len(officialData[year]) THEN [kind |-> "nan"]
                 ELSE [kind |-> "number",
                       n |-> totalDays + completeMonthsDays(year, month) + (day - 1)]

(***************************************************************************)
(* tabular.js                                                              *)
(***************************************************************************)
HIJRI_EPOCH == 1948440

\* LEAP_YEARS_IN_CYCLE without the leap year 29
LEAP_YEARS_IN_CYCLE_ten == <<2, 5, 7, 10, 13, 16, 18, 21, 24, 26>>

LEAP_YEARS_IN_CYCLE == <<2, 5, 7, 10, 13, 16, 18, 21, 24, 26, 29>>

TABULAR_MONTH_LENGTHS == <<30, 29, 30, 29, 30, 29, 30, 29, 30, 29, 30, 29>>

\* isTabularLeapYear counting the position in the cycle from 0
isTabularLeapYear_fromZero(year) ==
    LET yearInCycle == jsRem(year - 1, 30)
    IN  \E i \in 1..Len(LEAP_YEARS_IN_CYCLE) : LEAP_YEARS_IN_CYCLE[i] = yearInCycle

isTabularLeapYear(year) ==
    LET yearInCycle == jsRem(year - 1, 30) + 1
    IN  \E i \in 1..Len(LEAP_YEARS_IN_CYCLE) : LEAP_YEARS_IN_CYCLE[i] = yearInCycle

\* a number, or the Error thrown for a month outside 1..12
getTabularMonthLength(year, month) ==
    IF month < 1 \/ month > 12
    THEN Throw("Invalid month: must be between 1 and 12")
    ELSE IF month < 12 THEN TABULAR_MONTH_LENGTHS[month]
    ELSE IF isTabularLeapYear(year) THEN 30 ELSE 29

getTabularYearLength(year) == IF isTabularLeapYear(year) THEN 355 ELSE 354

\* tabularYearsSum counting 354 days for every year
RECURSIVE tabularYearsSum_noLeap(_)
tabularYearsSum_noLeap(remainingYears) ==
    IF remainingYears < 1 THEN 0
    ELSE tabularYearsSum_noLeap(remainingYears - 1) + 354

\* for (y = 1; y <= remainingYears; y++) totalDays += getTabularYearLength(y)
RECURSIVE tabularYearsSum(_)
tabularYearsSum(remainingYears) ==
    IF remainingYears < 1 THEN 0
    ELSE tabularYearsSum(remainingYears - 1) + getTabularYearLength(remainingYears)

\* for (m = 1; m < month; m++) totalDays += getTabularMonthLength(year, m)
RECURSIVE tabularMonthsSum(_, _)
tabularMonthsSum(year, month) ==
    IF month <= 1 THEN 0
    ELSE tabularMonthsSum(year, month - 1) + getTabularMonthLength(year, month - 1)

\* a "days" value, or the Error thrown for a year outside 1..5000
getDaysFromEpochTabular(year, month, day) ==
    IF year < 1 \/ year > 5000
    THEN Throw("Year must be between 1 and 5000")
    ELSE LET completeYears  == year - 1
             completeCycles == floorDiv(completeYears, 30)
             remainingYears == jsRem(completeYears, 30)
         IN  [kind |-> "days",
              n |-> completeCycles * 10631 + tabularYearsSum(remainingYears)
                    + tabularMonthsSum(year, month) + (day - 1)]

\* while (remainingDays >= getTabularYearLength(year)): <<year, remainingDays>>
RECURSIVE tabularYearWalk(_, _)
tabularYearWalk(year, remainingDays) ==
    IF remainingDays >= getTabularYearLength(year)
    THEN tabularYearWalk(year + 1, remainingDays - getTabularYearLength(year))
    ELSE <<year, remainingDays>>

\* tabularMonthWalk comparing with > instead of >=
RECURSIVE tabularMonthWalk_strict(_, _, _)
tabularMonthWalk_strict(year, month, remainingDays) ==
    IF month <= 12 /\ remainingDays > getTabularMonthLength(year, month)
    THEN tabularMonthWalk_strict(year, month + 1,
                                 remainingDays - getTabularMonthLength(year, month))
    ELSE <<month, remainingDays>>

\* while (month <= 12 && remainingDays >= getTabularMonthLength(year, month))
RECURSIVE tabularMonthWalk(_, _, _)
tabularMonthWalk(year, month, remainingDays) ==
    IF month <= 12 /\ remainingDays >= getTabularMonthLength(year, month)
    THEN tabularMonthWalk(year, month + 1,
                          remainingDays - getTabularMonthLength(year, month))
    ELSE <<month, remainingDays>>

daysFromEpochToHijri(daysFromEpoch) ==
    LET daysPerCycle   == 10631
        completeCycles == floorDiv(daysFromEpoch, daysPerCycle)
        yw == tabularYearWalk(completeCycles * 30 + 1,
                              daysFromEpoch - completeCycles * daysPerCycle)
        mw == tabularMonthWalk(yw[1], 1, yw[2])
    IN  [kind |-> "hijri", y |-> yw[1], m |-> mw[1], d |-> mw[2] + 1]

\* a "jdn" value, or the Error of getDaysFromEpochTabular
hijriToJulianTabular(year, month, day) ==
    LET daysFromEpoch == getDaysFromEpochTabular(year, month, day)
    IN  IF IsError(daysFromEpoch) THEN daysFromEpoch
        ELSE [kind |-> "jdn", j |-> HIJRI_EPOCH + daysFromEpoch.n]

julianToHijriTabular(julianDay) ==
    LET daysFromEpoch == julianDay - HIJRI_EPOCH
    IN  IF daysFromEpoch < 0 THEN Throw("Julian Day is before Hijri epoch")
        ELSE daysFromEpochToHijri(daysFromEpoch)

(***************************************************************************)
(* index.js                                                                *)
(***************************************************************************)
\* the weekday object every facade result carries
weekdayOf(julianDay) ==
    [ar     |-> getArabicWeekday(julianDay),
     fa     |-> getPersianWeekday(julianDay),
     en     |-> getEnglishWeekday(julianDay),
     number |-> getWeekdayNumber(julianDay)]

\* sourceOf reporting 'official' whatever engine converted the date
sourceOf_alwaysOfficial(usedOfficialData) == "official"

\* usedOfficialData ? 'official' : 'tabular'
sourceOf(usedOfficialData) == IF usedOfficialData THEN "official" ELSE "tabular"

\* for (m = 1; m < hm; m++) daysFromReference += getOfficialMonthLength(hy, m)
RECURSIVE officialMonthsSum(_, _)
officialMonthsSum(hy, hm) ==
    IF hm <= 1 THEN 0
    ELSE officialMonthsSum(hy, hm - 1) + ToNumber(getOfficialMonthLength(hy, hm - 1))

\* officialYearsSum adding the length of the target year too
RECURSIVE officialYearsSum_inclusive(_, _)
officialYearsSum_inclusive(from, hy) ==
    IF from > hy THEN 0
    ELSE LET yearLength == getOfficialYearLength(from)
             rest       == officialYearsSum_inclusive(from + 1, hy)
         IN  IF yearLength = NULL \/ rest = NULL THEN NULL
             ELSE yearLength + rest

\* for (y = from; y < hy; y++): the sum of the year lengths, or NULL when the
\* loop throws for a year without data
RECURSIVE officialYearsSum(_, _)
officialYearsSum(from, hy) ==
    IF from >= hy THEN 0
    ELSE LET yearLength == getOfficialYearLength(from)
             rest       == officialYearsSum(from + 1, hy)
         IN  IF yearLength = NULL \/ rest = NULL THEN NULL
             ELSE yearLength + rest

\* hijriToJulianWithOfficialData adding hd instead of hd - 1 in a later year
hijriToJulianWithOfficialData_wholeDay(hy, hm, hd) ==
    LET range == getOfficialDataRange
    IN  IF range.kind = "null" \/ hy < range.minYear \/ hy > range.maxYear
        THEN Throw("No official data for Hijri year")
        ELSE LET referenceJulian == hijriToJulianTabular(range.minYear, 1, 1)
             IN  IF IsError(referenceJulian) THEN referenceJulian
                 ELSE IF hy = range.minYear /\ hm = 1
                 THEN [kind |-> "jdn", j |-> referenceJulian.j + (hd - 1)]
                 ELSE IF hy = range.minYear
                 THEN [kind |-> "jdn",
                       j |-> referenceJulian.j + officialMonthsSum(hy, hm) + (hd - 1)]
                 ELSE LET years == officialYearsSum(range.minYear, hy)
                      IN  IF years = NULL
                          THEN Throw("Missing official data for year")
                          ELSE [kind |-> "jdn",
                                j |-> referenceJulian.j + years
                                      + officialMonthsSum(hy, hm) + hd]

\* a "jdn" value, or the Error thrown
hijriToJulianWithOfficialData(hy, hm, hd) ==
    LET range == getOfficialDataRange
    IN  IF range.kind = "null" \/ hy < range.minYear \/ hy > range.maxYear
        THEN Throw("No official data for Hijri year")
        ELSE LET referenceJulian == hijriToJulianTabular(range.minYear, 1, 1)
             IN  IF IsError(referenceJulian) THEN referenceJulian
                 ELSE IF hy = range.minYear /\ hm = 1
                 THEN [kind |-> "jdn", j |-> referenceJulian.j + (hd - 1)]
                 ELSE IF hy = range.minYear
                 THEN [kind |-> "jdn",
                       j |-> referenceJulian.j + officialMonthsSum(hy, hm) + (hd - 1)]
                 ELSE LET years == officialYearsSum(range.minYear, hy)
                      IN  IF years = NULL
                          THEN Throw("Missing official data for year")
                          ELSE [kind |-> "jdn",
                                j |-> referenceJulian.j + years
                                      + officialMonthsSum(hy, hm) + (hd - 1)]

\* officialMonthWalk comparing with <= instead of <
RECURSIVE officialMonthWalk_inclusive(_, _, _)
officialMonthWalk_inclusive(currentYear, currentMonth, daysFromReference) ==
    IF currentMonth > 12 THEN [kind |-> "null"]
    ELSE LET monthLength == getOfficialMonthLength(currentYear, currentMonth)
         IN  IF daysFromReference <= ToNumber(monthLength)
             THEN [kind |-> "hijri", y |-> currentYear, m |-> currentMonth,
                   d |-> daysFromReference + 1]
             ELSE officialMonthWalk_inclusive(currentYear, currentMonth + 1,
                                              daysFromReference - ToNumber(monthLength))

\* the month loop of julianToHijriWithOfficialData; "null" when it falls through
RECURSIVE officialMonthWalk(_, _, _)
officialMonthWalk(currentYear, currentMonth, daysFromReference) ==
    IF currentMonth > 12 THEN [kind |-> "null"]
    ELSE LET monthLength == getOfficialMonthLength(currentYear, currentMonth)
         IN  IF daysFromReference < ToNumber(monthLength)
             THEN [kind |-> "hijri", y |-> currentYear, m |-> currentMonth,
                   d |-> daysFromReference + 1]
             ELSE officialMonthWalk(currentYear, currentMonth + 1,
                                    daysFromReference - ToNumber(monthLength))

\* the year loop of julianToHijriWithOfficialData
RECURSIVE officialYearWalk(_, _, _)
officialYearWalk(currentYear, maxYear, daysFromReference) ==
    IF currentYear > maxYear THEN [kind |-> "null"]
    ELSE LET yearLength == getOfficialYearLength(currentYear)
         IN  IF yearLength = NULL THEN [kind |-> "null"]
             ELSE IF daysFromReference < yearLength
             THEN officialMonthWalk(currentYear, 1, daysFromReference)
             ELSE officialYearWalk(currentYear + 1, maxYear,
                                   daysFromReference - yearLength)

\* julianToHijriWithOfficialData returning null for the anchor day too
julianToHijriWithOfficialData_afterAnchor(julianDay, nearYear) ==
    LET range == getOfficialDataRange
    IN  IF range.kind = "null" THEN [kind |-> "null"]
        ELSE LET referenceJulian == hijriToJulianTabular(range.minYear, 1, 1)
             IN  IF IsError(referenceJulian) THEN referenceJulian
                 ELSE IF julianDay - referenceJulian.j <= 0 THEN [kind |-> "null"]
                 ELSE officialYearWalk(range.minYear, range.maxYear,
                                       julianDay - referenceJulian.j)

\* a "hijri" date, "null", or the Error of hijriToJulianTabular
julianToHijriWithOfficialData(julianDay, nearYear) ==
    LET range == getOfficialDataRange
    IN  IF range.kind = "null" THEN [kind |-> "null"]
        ELSE LET referenceJulian == hijriToJulianTabular(range.minYear, 1, 1)
             IN  IF IsError(referenceJulian) THEN referenceJulian
                 ELSE IF julianDay - referenceJulian.j < 0 THEN [kind |-> "null"]
                 ELSE officialYearWalk(range.minYear, range.maxYear,
                                       julianDay - referenceJulian.j)

\* for (yearOffset = -1; yearOffset <= 1; yearOffset++): the first official
\* result, "null" when no candidate year gives one, or an Error
RECURSIVE officialProbe(_, _, _)
officialProbe(julianDay, approximateYear, yearOffset) ==
    IF yearOffset > 1 THEN [kind |-> "null"]
    ELSE LET testYear == approximateYear + yearOffset
         IN  IF hasOfficialData(testYear, 1)
             THEN LET hijriDate == julianToHijriWithOfficialData(julianDay, testYear)
                  IN  IF hijriDate.kind = "null"
                      THEN officialProbe(julianDay, approximateYear, yearOffset + 1)
                      ELSE hijriDate
             ELSE officialProbe(julianDay, approximateYear, yearOffset + 1)

\* the part jalaaliToHijri and gregorianToHijri share after computing julianDay
toHijriResult(julianDay) ==
    LET approximateHijri == julianToHijriTabular(julianDay)
    IN  IF IsError(approximateHijri) THEN approximateHijri
        ELSE LET probed == officialProbe(julianDay, approximateHijri.y, -1)
                 usedOfficialData == probed.kind = "hijri"
                 hijriDate == IF usedOfficialData THEN probed ELSE approximateHijri
             IN  IF IsError(probed) THEN probed
                 ELSE [kind |-> "hijri",
                       y |-> hijriDate.y, m |-> hijriDate.m, d |-> hijriDate.d,
                       source |-> sourceOf(usedOfficialData),
                       weekday |-> weekdayOf(julianDay)]

jalaaliToHijri(jy, jm, jd) ==
    IF ~isValidJalaaliDate(jy, jm, jd) THEN Throw("Invalid Jalaali date")
    ELSE toHijriResult(jalaaliToJulian(jy, jm, jd))

gregorianToHijri(gy, gm, gd) ==
    IF ~isValidGregorianDate(gy, gm, gd) THEN Throw("Invalid Gregorian date")
    ELSE toHijriResult(gregorianToJulian(gy, gm, gd))

\* fromHijriJulian asking hasOfficialData for the year only
fromHijriJulian_yearOnly(hy, hm, hd) ==
    IF hasOfficialData(hy, 1)
    THEN LET julianDay == hijriToJulianWithOfficialData(hy, hm, hd)
         IN  IF IsError(julianDay) THEN julianDay
             ELSE [kind |-> "jdn", j |-> julianDay.j, usedOfficialData |-> TRUE]
    ELSE LET julianDay == hijriToJulianTabular(hy, hm, hd)
         IN  IF IsError(julianDay) THEN julianDay
             ELSE [kind |-> "jdn", j |-> julianDay.j, usedOfficialData |-> FALSE]

\* the part hijriToJalaali and hijriToGregorian share: the Julian day and the
\* flag usedOfficialData, or the Error thrown
fromHijriJulian(hy, hm, hd) ==
    IF hasOfficialData(hy, hm)
    THEN LET julianDay == hijriToJulianWithOfficialData(hy, hm, hd)
         IN  IF IsError(julianDay) THEN julianDay
             ELSE [kind |-> "jdn", j |-> julianDay.j, usedOfficialData |-> TRUE]
    ELSE LET julianDay == hijriToJulianTabular(hy, hm, hd)
         IN  IF IsError(julianDay) THEN julianDay
             ELSE [kind |-> "jdn", j |-> julianDay.j, usedOfficialData |-> FALSE]

hijriToJalaali(hy, hm, hd) ==
    IF ~isValidHijriDate(hy, hm, hd) THEN Throw("Invalid Hijri date")
    ELSE LET jd == fromHijriJulian(hy, hm, hd)
         IN  IF IsError(jd) THEN jd
             ELSE LET jalaaliDate == julianToJalaali(jd.j)
                  IN  [kind |-> "jalaali",
                       y |-> jalaaliDate.y, m |-> jalaaliDate.m, d |-> jalaaliDate.d,
                       source |-> sourceOf(jd.usedOfficialData),
                       weekday |-> weekdayOf(jd.j)]

hijriToGregorian(hy, hm, hd) ==
    IF ~isValidHijriDate(hy, hm, hd) THEN Throw("Invalid Hijri date")
    ELSE LET jd == fromHijriJulian(hy, hm, hd)
         IN  IF IsError(jd) THEN jd
             ELSE LET gregorianDate == julianToGregorian(jd.j)
                  IN  [kind |-> "gregorian",
                       y |-> gregorianDate.y, m |-> gregorianDate.m,
                       d |-> gregorianDate.d,
                       source |-> sourceOf(jd.usedOfficialData),
                       weekday |-> weekdayOf(jd.j)]

getSourceInfo(hy, hm) ==
    LET hasOfficial == hasOfficialData(hy, hm)
    IN  [kind |-> "info",
         hasOfficialData |-> hasOfficial,
         source |-> IF hasOfficial THEN "official" ELSE "tabular",
         officialDataRange |-> getOfficialDataRange]

(***************************************************************************)
(* The state machine: the inputs and the calls                             *)
(***************************************************************************)
Months == 0..13

Days == 0..32

\* the first year, and the years around the README examples
JalaaliYears ==
    {1} \cup (1396..(1396 + JalaaliSpan)) \cup (1402..(1402 + JalaaliSpan))

\* the year of the Hijri epoch, and the years around both ends of the table
GregorianYears ==
    {1, 622} \cup (2001..(2001 + GregorianSpan)) \cup (2024..(2026 + GregorianSpan))

\* both ends of the tabular range, and the years around both ends of the table
HijriYears ==
    {0, 1, 5000, 5001} \cup (1422..(1422 + HijriSpan)) \cup (1445..(1447 + HijriSpan))

\* the first day after the last tabular year, 1 Muharram 5001
TabularEnd == hijriToJulianTabular(5000, 12, 29).j + 1

\* the tabular day number of the first day of the table
TableStart == hijriToJulianTabular(1423, 1, 1).j

\* the first day after the last recorded month of the table
TableEnd ==
    LET RECURSIVE days(_)
        days(y) == IF y \notin DOMAIN OfficialTable THEN 0
                   ELSE sumSeq(OfficialTable[y]) + days(y + 1)
    IN  TableStart + days(1423)

\* a day inside the table, three days before the README date 2024-12-05
TableInside == gregorianToJulian(2024, 12, 2)

JdnInputs ==
    ((HIJRI_EPOCH - JdnMargin)..(HIJRI_EPOCH + JdnMargin))
    \cup ((TabularEnd - JdnMargin)..(TabularEnd + JdnMargin))

DateInputs(k, years) ==
    {[kind |-> k, y |-> y, m |-> m, d |-> d] : y \in years, m \in Months, d \in Days}

Inputs ==
    DateInputs("jalaali", JalaaliYears)
    \cup DateInputs("gregorian", GregorianYears)
    \cup DateInputs("hijri", HijriYears)
    \cup {[kind |-> "jdn", j |-> j] : j \in JdnInputs}

\* the inputs of the functions called one by one: also the Gregorian years
\* before year 1 and two century years, and the day numbers around 0 and
\* around both ends of the table
UnitInputs ==
    Inputs
    \cup DateInputs("gregorian", {-1, 0, 1900, 2000})
    \cup {[kind |-> "jdn", j |-> j] :
             j \in ((-JdnMargin)..JdnMargin)
                   \cup ((TableStart - JdnMargin)..(TableStart + JdnMargin))
                   \cup ((TableEnd - JdnMargin)..(TableEnd + JdnMargin))
                   \cup ((TableInside - JdnMargin)..(TableInside + JdnMargin))}

\* the value the next call is applied to
cur == IF hist = <<>> THEN input ELSE hist[Len(hist)].ret

Call(op, ret) ==
    /\ hist' = Append(hist, [op |-> op, arg |-> cur, ret |-> ret])
    /\ UNCHANGED <<officialData, input>>

Init ==
    /\ officialData = OfficialTable
    /\ input \in Inputs
    /\ hist = <<>>

UnitInit ==
    /\ officialData = OfficialTable
    /\ input \in UnitInputs
    /\ hist = <<>>

JalaaliToJulian ==
    /\ Len(hist) < MaxSteps
    /\ cur.kind = "jalaali"
    /\ Call("jalaaliToJulian", [kind |-> "jdn", j |-> jalaaliToJulian(cur.y, cur.m, cur.d)])

JulianToJalaali ==
    /\ Len(hist) < MaxSteps
    /\ cur.kind = "jdn"
    /\ Call("julianToJalaali", julianToJalaali(cur.j))

GregorianToJulian ==
    /\ Len(hist) < MaxSteps
    /\ cur.kind = "gregorian"
    /\ Call("gregorianToJulian",
            [kind |-> "jdn", j |-> gregorianToJulian(cur.y, cur.m, cur.d)])

JulianToGregorian ==
    /\ Len(hist) < MaxSteps
    /\ cur.kind = "jdn"
    /\ Call("julianToGregorian", julianToGregorian(cur.j))

HijriToJulianTabular ==
    /\ Len(hist) < MaxSteps
    /\ cur.kind = "hijri"
    /\ Call("hijriToJulianTabular", hijriToJulianTabular(cur.y, cur.m, cur.d))

JulianToHijriTabular ==
    /\ Len(hist) < MaxSteps
    /\ cur.kind = "jdn"
    /\ Call("julianToHijriTabular", julianToHijriTabular(cur.j))

JalaaliToHijri ==
    /\ Len(hist) < MaxSteps
    /\ cur.kind = "jalaali"
    /\ Call("jalaaliToHijri", jalaaliToHijri(cur.y, cur.m, cur.d))

GregorianToHijri ==
    /\ Len(hist) < MaxSteps
    /\ cur.kind = "gregorian"
    /\ Call("gregorianToHijri", gregorianToHijri(cur.y, cur.m, cur.d))

HijriToJalaali ==
    /\ Len(hist) < MaxSteps
    /\ cur.kind = "hijri"
    /\ Call("hijriToJalaali", hijriToJalaali(cur.y, cur.m, cur.d))

HijriToGregorian ==
    /\ Len(hist) < MaxSteps
    /\ cur.kind = "hijri"
    /\ Call("hijriToGregorian", hijriToGregorian(cur.y, cur.m, cur.d))

GetSourceInfo ==
    /\ Len(hist) < MaxSteps
    /\ cur.kind = "hijri"
    /\ Call("getSourceInfo", getSourceInfo(cur.y, cur.m))

\* a boolean result
Bool(b) == [kind |-> "bool", b |-> b]

\* a result that is a number or null
NumberOrNull(v) == IF v = NULL THEN [kind |-> "null"] ELSE [kind |-> "number", n |-> v]

IsJalaaliLeapYear ==
    /\ Len(hist) < MaxSteps
    /\ cur.kind = "jalaali"
    /\ Call("isJalaaliLeapYear", Bool(isJalaaliLeapYear(cur.y)))

GetJalaaliMonthDays ==
    /\ Len(hist) < MaxSteps
    /\ cur.kind = "jalaali"
    /\ Call("getJalaaliMonthDays",
            [kind |-> "number", n |-> getJalaaliMonthDays(cur.y, cur.m)])

IsValidJalaaliDate ==
    /\ Len(hist) < MaxSteps
    /\ cur.kind = "jalaali"
    /\ Call("isValidJalaaliDate", Bool(isValidJalaaliDate(cur.y, cur.m, cur.d)))

IsValidGregorianDate ==
    /\ Len(hist) < MaxSteps
    /\ cur.kind = "gregorian"
    /\ Call("isValidGregorianDate", Bool(isValidGregorianDate(cur.y, cur.m, cur.d)))

IsValidHijriDate ==
    /\ Len(hist) < MaxSteps
    /\ cur.kind = "hijri"
    /\ Call("isValidHijriDate", Bool(isValidHijriDate(cur.y, cur.m, cur.d)))

GetTabularYearLength ==
    /\ Len(hist) < MaxSteps
    /\ cur.kind = "hijri"
    /\ Call("getTabularYearLength",
            [kind |-> "number", n |-> getTabularYearLength(cur.y)])

HasOfficialData ==
    /\ Len(hist) < MaxSteps
    /\ cur.kind = "hijri"
    /\ Call("hasOfficialData", Bool(hasOfficialData(cur.y, cur.m)))

GetOfficialMonthLength ==
    /\ Len(hist) < MaxSteps
    /\ cur.kind = "hijri"
    /\ Call("getOfficialMonthLength", NumberOrNull(getOfficialMonthLength(cur.y, cur.m)))

GetOfficialYearLength ==
    /\ Len(hist) < MaxSteps
    /\ cur.kind = "hijri"
    /\ Call("getOfficialYearLength", NumberOrNull(getOfficialYearLength(cur.y)))

GetDaysFromEpochOfficial ==
    /\ Len(hist) < MaxSteps
    /\ cur.kind = "hijri"
    /\ Call("getDaysFromEpochOfficial", getDaysFromEpochOfficial(cur.y, cur.m, cur.d))

HijriToJulianWithOfficialData ==
    /\ Len(hist) < MaxSteps
    /\ cur.kind = "hijri"
    /\ Call("hijriToJulianWithOfficialData",
            hijriToJulianWithOfficialData(cur.y, cur.m, cur.d))

\* nearYear is a parameter the function never reads
JulianToHijriWithOfficialData ==
    /\ Len(hist) < MaxSteps
    /\ cur.kind = "jdn"
    /\ \E nearYear \in {1423, 1448} :
           Call("julianToHijriWithOfficialData",
                julianToHijriWithOfficialData(cur.j, nearYear))

IsTabularLeapYear ==
    /\ Len(hist) < MaxSteps
    /\ cur.kind = "hijri"
    /\ Call("isTabularLeapYear", Bool(isTabularLeapYear(cur.y)))

\* a number, or the Error thrown for a month outside 1..12
GetTabularMonthLength ==
    /\ Len(hist) < MaxSteps
    /\ cur.kind = "hijri"
    /\ Call("getTabularMonthLength",
            LET len == getTabularMonthLength(cur.y, cur.m)
            IN  IF cur.m < 1 \/ cur.m > 12 THEN len
                ELSE [kind |-> "number", n |-> len])

Next ==
    \/ JalaaliToJulian
    \/ JulianToJalaali
    \/ GregorianToJulian
    \/ JulianToGregorian
    \/ HijriToJulianTabular
    \/ JulianToHijriTabular
    \/ JalaaliToHijri
    \/ GregorianToHijri
    \/ HijriToJalaali
    \/ HijriToGregorian
    \/ GetSourceInfo

Spec == Init /\ [][Next]_vars

\* the functions below the facade, called one by one
UnitNext ==
    \/ IsJalaaliLeapYear
    \/ GetJalaaliMonthDays
    \/ IsValidJalaaliDate
    \/ IsValidGregorianDate
    \/ IsValidHijriDate
    \/ GetTabularYearLength
    \/ IsTabularLeapYear
    \/ GetTabularMonthLength
    \/ HasOfficialData
    \/ GetOfficialMonthLength
    \/ GetOfficialYearLength
    \/ GetDaysFromEpochOfficial
    \/ HijriToJulianWithOfficialData
    \/ JulianToHijriWithOfficialData
    \/ JalaaliToJulian
    \/ JulianToJalaali
    \/ GregorianToJulian
    \/ JulianToGregorian
    \/ HijriToJulianTabular
    \/ JulianToHijriTabular

UnitSpec == UnitInit /\ [][UnitNext]_vars

TypeOK ==
    /\ officialData = OfficialTable
    /\ input \in UnitInputs
    /\ Len(hist) <= MaxSteps

(***************************************************************************)
(* Properties                                                              *)
(***************************************************************************)
\* the positions of the calls of op in hist
Calls(op) == {i \in 1..Len(hist) : hist[i].op = op}

SameDate(a, b) == a.y = b.y /\ a.m = b.m /\ a.d = b.d

IsDate(v, y, m, d) == v.y = y /\ v.m = m /\ v.d = d

\* a Jalaali date with y >= 1, m in 1..12 and d within the month
ValidJalaali(v) ==
    /\ v.y >= 1
    /\ v.m \in 1..12
    /\ v.d >= 1
    /\ v.d <= getJalaaliMonthDays(v.y, v.m)

\* the calendar day after a valid Jalaali date
NextJalaaliDay(v) ==
    IF v.d < getJalaaliMonthDays(v.y, v.m) THEN [y |-> v.y, m |-> v.m, d |-> v.d + 1]
    ELSE IF v.m < 12 THEN [y |-> v.y, m |-> v.m + 1, d |-> 1]
    ELSE [y |-> v.y + 1, m |-> 1, d |-> 1]

\* C1: Jalaali round trip: julianToJalaali applied to the result of
\* jalaaliToJulian(y, m, d) returns (y, m, d) for every valid Jalaali date.
C1_JalaaliRoundTrip ==
    \A i \in Calls("jalaaliToJulian") :
        ValidJalaali(hist[i].arg) =>
            SameDate(julianToJalaali(hist[i].ret.j), hist[i].arg)

\* C2: Jalaali monotonicity: for every valid Jalaali date the JDN that
\* jalaaliToJulian gives the next calendar day is strictly greater than the
\* JDN it gives the date.
C2_JalaaliMonotonic ==
    \A i \in Calls("jalaaliToJulian") :
        ValidJalaali(hist[i].arg) =>
            LET n == NextJalaaliDay(hist[i].arg)
            IN  jalaaliToJulian(n.y, n.m, n.d) > hist[i].ret.j

\* C3: jalaaliToHijri(1403, 9, 15) reports source 'official' and a
\* weekday.number equal to the JDN of that date modulo 7.
C3_Readme1403 ==
    \A i \in Calls("jalaaliToHijri") :
        IsDate(hist[i].arg, 1403, 9, 15) =>
            /\ ~IsError(hist[i].ret)
            /\ hist[i].ret.source = "official"
            /\ hist[i].ret.weekday.number = jalaaliToJulian(1403, 9, 15) % 7

\* C4: Jalaali <-> Hijri are mutually inverse: hijriToJalaali applied to the
\* Hijri date that jalaaliToHijri returned for a valid Jalaali date returns
\* that Jalaali date.
C4_JalaaliHijriInverse ==
    \A i \in Calls("jalaaliToHijri") :
        ValidJalaali(hist[i].arg) =>
            /\ ~IsError(hist[i].ret)
            /\ LET h    == hist[i].ret
                   back == hijriToJalaali(h.y, h.m, h.d)
               IN  ~IsError(back) /\ SameDate(back, hist[i].arg)

\* the anchor of the table: the tabular JDN of minYear/1/1
Anchor == hijriToJulianTabular(Min(DOMAIN officialData), 1, 1).j

\* the sum of all recorded month lengths of the years from..to
RECURSIVE RecordedDays(_, _)
RecordedDays(from, to) ==
    IF from > to THEN 0
    ELSE (IF from \in DOMAIN officialData THEN sumSeq(officialData[from]) ELSE 0)
         + RecordedDays(from + 1, to)

\* the JDN lies inside the table's coverage
Covered(j) ==
    /\ Anchor <= j
    /\ j < Anchor + RecordedDays(Min(DOMAIN officialData), Max(DOMAIN officialData))

\* the day number the anchor-and-accumulate walk gives a recorded date
OfficialDayNumber(y, m, d) ==
    Anchor + RecordedDays(Min(DOMAIN officialData), y - 1)
           + sumSeq(SubSeq(officialData[y], 1, m - 1)) + (d - 1)

\* v is the recorded date whose day number is j
IsOfficialDateOf(v, j) ==
    /\ hasOfficialData(v.y, v.m)
    /\ v.d >= 1
    /\ v.d <= getOfficialMonthLength(v.y, v.m)
    /\ OfficialDayNumber(v.y, v.m, v.d) = j

\* a valid Gregorian date on or after the Hijri epoch
GregorianSinceEpoch(v) ==
    /\ isValidGregorianDate(v.y, v.m, v.d)
    /\ gregorianToJulian(v.y, v.m, v.d) >= HIJRI_EPOCH

C7_Readme2024 ==
    \A i \in Calls("gregorianToHijri") :
        IsDate(hist[i].arg, 2024, 12, 5) =>
            /\ ~IsError(hist[i].ret)
            /\ IsDate(hist[i].ret, 1446, 6, 3)
            /\ hist[i].ret.source = "tabular"

\* a Hijri date of a recorded month, with the day within the recorded length
RecordedHijri(v) ==
    /\ hasOfficialData(v.y, v.m)
    /\ v.d >= 1
    /\ v.d <= getOfficialMonthLength(v.y, v.m)

Accepted(c) ==
    CASE c.op = "jalaaliToHijri"   -> isValidJalaaliDate(c.arg.y, c.arg.m, c.arg.d)
      [] c.op = "gregorianToHijri" -> isValidGregorianDate(c.arg.y, c.arg.m, c.arg.d)
      [] c.op = "hijriToJalaali"   -> isValidHijriDate(c.arg.y, c.arg.m, c.arg.d)
      [] c.op = "hijriToGregorian" -> isValidHijriDate(c.arg.y, c.arg.m, c.arg.d)

Facade == {"jalaaliToHijri", "gregorianToHijri", "hijriToJalaali", "hijriToGregorian"}

\* C9: a facade conversion raises an error if and only if its validator
\* rejects the input; every accepted input yields a result and no error from
\* a lower layer.
C9_ErrorIffInvalid ==
    \A i \in 1..Len(hist) :
        hist[i].op \in Facade => (IsError(hist[i].ret) <=> ~Accepted(hist[i]))

\* C10: the tabular engine never handles a year outside 1..5000:
\* hijriToJulianTabular raises for year < 1 or year > 5000, and
\* julianToHijriTabular raises for every JDN before the epoch or in a Hijri
\* year after 5000, instead of returning a date.
C10_TabularYearDomain ==
    \A i \in 1..Len(hist) :
        /\ hist[i].op = "hijriToJulianTabular" =>
              ((hist[i].arg.y < 1 \/ hist[i].arg.y > 5000) => IsError(hist[i].ret))
        /\ hist[i].op = "julianToHijriTabular" =>
              ((hist[i].arg.j < HIJRI_EPOCH \/ hist[i].arg.j >= TabularEnd)
                  => IsError(hist[i].ret))

\* the queries and conversions of the official-table resolver
Resolver ==
    {"hasOfficialData", "getOfficialMonthLength", "getOfficialYearLength",
     "getDaysFromEpochOfficial", "hijriToJulianWithOfficialData",
     "julianToHijriWithOfficialData"}

\* C11: the official-table resolver never raises for missing data: for any
\* year and month, the years outside the table's range included,
\* hasOfficialData, getOfficialMonthLength, getOfficialYearLength,
\* getDaysFromEpochOfficial, the official Hijri -> JDN conversion and the
\* official JDN -> Hijri conversion return a value instead of throwing.
C11_ResolverNeverThrows ==
    \A i \in 1..Len(hist) :
        hist[i].op \in Resolver => ~IsError(hist[i].ret)

\* a proleptic Gregorian date of any year with m in 1..12 and d within the month
ProlepticGregorian(v) ==
    /\ v.m \in 1..12
    /\ v.d >= 1
    /\ v.d <= getGregorianMonthDays(v.y, v.m)

\* C12: Gregorian round trip: julianToGregorian applied to the result of
\* gregorianToJulian(y, m, d) returns (y, m, d) for every proleptic Gregorian
\* date with m in 1..12 and d within the month, the years <= 0 included, and
\* gregorianToJulian applied to the result of julianToGregorian(j) returns j.
C12_GregorianRoundTrip ==
    \A i \in 1..Len(hist) :
        /\ (hist[i].op = "gregorianToJulian" /\ ProlepticGregorian(hist[i].arg)) =>
              SameDate(julianToGregorian(hist[i].ret.j), hist[i].arg)
        /\ hist[i].op = "julianToGregorian" =>
              gregorianToJulian(hist[i].ret.y, hist[i].ret.m, hist[i].ret.d)
                  = hist[i].arg.j

\* C12 witness: gregorianToJulian converted 29 February of the leap year 0,
\* and julianToGregorian takes the result back to it.
C12_Witness ==
    \E i \in Calls("gregorianToJulian") :
        /\ IsDate(hist[i].arg, 0, 2, 29)
        /\ ProlepticGregorian(hist[i].arg)
        /\ IsDate(julianToGregorian(hist[i].ret.j), 0, 2, 29)

\* a tabular Hijri date: year in 1..5000, m in 1..12, d within the tabular month
TabularHijri(v) ==
    /\ v.y \in 1..5000
    /\ v.m \in 1..12
    /\ v.d >= 1
    /\ v.d <= getTabularMonthLength(v.y, v.m)

\* C13: tabular Hijri round trip: for every year in 1..5000, month in 1..12
\* and day within getTabularMonthLength(year, month), julianToHijriTabular
\* applied to the result of hijriToJulianTabular returns (year, month, day).
C13_TabularRoundTrip ==
    \A i \in Calls("hijriToJulianTabular") :
        TabularHijri(hist[i].arg) =>
            /\ ~IsError(hist[i].ret)
            /\ LET back == julianToHijriTabular(hist[i].ret.j)
               IN  ~IsError(back) /\ SameDate(back, hist[i].arg)

\* C13 witness: hijriToJulianTabular converted the 30th day of the twelfth
\* month of a tabular leap year, and julianToHijriTabular takes it back.
C13_Witness ==
    \E i \in Calls("hijriToJulianTabular") :
        /\ TabularHijri(hist[i].arg)
        /\ isTabularLeapYear(hist[i].arg.y)
        /\ hist[i].arg.m = 12
        /\ hist[i].arg.d = 30
        /\ SameDate(julianToHijriTabular(hist[i].ret.j), hist[i].arg)

\* the calendar day after a valid Gregorian date
NextGregorianDay(v) ==
    IF v.d < getGregorianMonthDays(v.y, v.m) THEN [y |-> v.y, m |-> v.m, d |-> v.d + 1]
    ELSE IF v.m < 12 THEN [y |-> v.y, m |-> v.m + 1, d |-> 1]
    ELSE [y |-> v.y + 1, m |-> 1, d |-> 1]

\* the calendar day after a tabular Hijri date
NextTabularDay(v) ==
    IF v.d < getTabularMonthLength(v.y, v.m) THEN [y |-> v.y, m |-> v.m, d |-> v.d + 1]
    ELSE IF v.m < 12 THEN [y |-> v.y, m |-> v.m + 1, d |-> 1]
    ELSE [y |-> v.y + 1, m |-> 1, d |-> 1]

\* C14: Gregorian and tabular Hijri monotonicity: for every valid Gregorian
\* date gregorianToJulian of the next calendar day is strictly greater than
\* that of the date, and for every tabular Hijri date whose next day is still
\* in a year of 1..5000 hijriToJulianTabular of the next calendar day is
\* strictly greater than that of the date.
C14_Monotonic ==
    \A i \in 1..Len(hist) :
        LET a == hist[i].arg
        IN  /\ (hist[i].op = "gregorianToJulian"
                  /\ isValidGregorianDate(a.y, a.m, a.d)) =>
                  LET n == NextGregorianDay(a)
                  IN  gregorianToJulian(n.y, n.m, n.d) > hist[i].ret.j
            /\ (hist[i].op = "hijriToJulianTabular" /\ TabularHijri(a)
                  /\ NextTabularDay(a).y <= 5000) =>
                  LET n    == NextTabularDay(a)
                      next == hijriToJulianTabular(n.y, n.m, n.d)
                  IN  /\ ~IsError(hist[i].ret)
                      /\ ~IsError(next)
                      /\ next.j > hist[i].ret.j

\* C14 witness: hijriToJulianTabular converted the last day of a tabular leap
\* year, and the first day of the next year has a greater day number.
C14_Witness ==
    \E i \in Calls("hijriToJulianTabular") :
        /\ TabularHijri(hist[i].arg)
        /\ isTabularLeapYear(hist[i].arg.y)
        /\ hist[i].arg.m = 12
        /\ hist[i].arg.d = 30
        /\ hist[i].arg.y < 5000
        /\ hijriToJulianTabular(hist[i].arg.y + 1, 1, 1).j > hist[i].ret.j

\* C15: Jalaali year 1403 is a leap year: isValidJalaaliDate(1403, 12, 30) is
\* true, isJalaaliLeapYear(1403) is true and getJalaaliMonthDays(1403, 12) is
\* 30.
C15_Leap1403 ==
    \A i \in 1..Len(hist) :
        /\ (hist[i].op = "isValidJalaaliDate" /\ IsDate(hist[i].arg, 1403, 12, 30)) =>
              hist[i].ret.b
        /\ (hist[i].op = "isJalaaliLeapYear" /\ hist[i].arg.y = 1403) =>
              hist[i].ret.b
        /\ (hist[i].op = "getJalaaliMonthDays" /\ hist[i].arg.y = 1403
              /\ hist[i].arg.m = 12) =>
              hist[i].ret.n = 30

\* C16: Jalaali leap consistency: getJalaaliMonthDays gives 31 for the months
\* 1..6, 30 for the months 7..11, and for month 12 it gives 30 exactly when
\* isJalaaliLeapYear(y) is true and 29 otherwise; and the leap flag that
\* jalaaliToJulian computes inline to choose its March offset equals
\* isJalaaliLeapYear(y).
C16_LeapConsistency ==
    \A i \in 1..Len(hist) :
        LET a == hist[i].arg
        IN  /\ (hist[i].op = "getJalaaliMonthDays" /\ a.m \in 1..12) =>
                  hist[i].ret.n = (IF a.m <= 6 THEN 31
                                   ELSE IF a.m <= 11 THEN 30
                                   ELSE IF isJalaaliLeapYear(a.y) THEN 30 ELSE 29)
            /\ hist[i].op = "jalaaliToJulian" =>
                  /\ jalaaliLeapFlag(a.y) \in {0, 1}
                  /\ (jalaaliLeapFlag(a.y) = 1) <=> isJalaaliLeapYear(a.y)

\* C16 witness: jalaaliToJulian converted a date of a year isJalaaliLeapYear
\* takes for a leap year, and its inline flag is set.
C16_Witness ==
    \E i \in Calls("jalaaliToJulian") :
        /\ isJalaaliLeapYear(hist[i].arg.y)
        /\ jalaaliLeapFlag(hist[i].arg.y) = 1
        /\ getJalaaliMonthDays(hist[i].arg.y, 12) = 30

\* the length of month m of Gregorian year y >= 1, February having 29 days iff
\* y is divisible by 4 and not by 100, or divisible by 400
GregorianMonthLength(y, m) ==
    IF m \in {4, 6, 9, 11} THEN 30
    ELSE IF m # 2 THEN 31
    ELSE IF (y % 4 = 0 /\ y % 100 # 0) \/ y % 400 = 0 THEN 29 ELSE 28

\* C17: isValidGregorianDate(y, m, d) is true exactly when y >= 1,
\* 1 <= m <= 12 and 1 <= d <= the length of month m, where February has 29
\* days iff y is divisible by 4 and not by 100, or divisible by 400; in
\* particular isValidGregorianDate(2024, 2, 30) is false.
C17_ValidGregorian ==
    \A i \in Calls("isValidGregorianDate") :
        LET a == hist[i].arg
        IN  hist[i].ret.b <=>
                (/\ a.y >= 1
                 /\ a.m \in 1..12
                 /\ a.d >= 1
                 /\ a.d <= GregorianMonthLength(a.y, a.m))

\* C17 witness: isValidGregorianDate accepted 2024-02-29 and 2000-02-29 is a
\* date it accepts while it rejects 1900-02-29 and 2024-02-30.
C17_Witness ==
    \E i \in Calls("isValidGregorianDate") :
        /\ IsDate(hist[i].arg, 2024, 2, 29)
        /\ hist[i].ret.b
        /\ isValidGregorianDate(2000, 2, 29)
        /\ ~isValidGregorianDate(1900, 2, 29)
        /\ ~isValidGregorianDate(2024, 2, 30)

\* C18: isValidHijriDate(y, m, d) is true exactly when 1 <= y <= 5000,
\* 1 <= m <= 12 and 1 <= d <= 30; in particular isValidHijriDate(1445, 13, 1)
\* is false.
C18_ValidHijri ==
    \A i \in Calls("isValidHijriDate") :
        LET a == hist[i].arg
        IN  hist[i].ret.b <=> (a.y \in 1..5000 /\ a.m \in 1..12 /\ a.d \in 1..30)

\* C18 witness: isValidHijriDate rejected 1445/13/1.
C18_Witness ==
    \E i \in Calls("isValidHijriDate") :
        /\ IsDate(hist[i].arg, 1445, 13, 1)
        /\ ~hist[i].ret.b
        /\ isValidHijriDate(1445, 12, 30)

\* the JDN a facade conversion computes from the argument of the call
ConversionJdn(c) ==
    CASE c.op = "jalaaliToHijri"   -> jalaaliToJulian(c.arg.y, c.arg.m, c.arg.d)
      [] c.op = "gregorianToHijri" -> gregorianToJulian(c.arg.y, c.arg.m, c.arg.d)
      [] OTHER -> IF hasOfficialData(c.arg.y, c.arg.m)
                  THEN OfficialDayNumber(c.arg.y, c.arg.m, c.arg.d)
                  ELSE hijriToJulianTabular(c.arg.y, c.arg.m, c.arg.d).j

\* C19: weekday metadata: every conversion result carries weekday.number =
\* (the JDN used for the conversion) mod 7, a value in 0..6, and weekday.ar,
\* weekday.fa and weekday.en are the entries at that index of the three
\* 7-entry name tables, with index 0 = Monday; for gregorianToHijri the
\* weekday number of the next Gregorian day is (number + 1) mod 7.
C19_WeekdayMetadata ==
    \A i \in 1..Len(hist) :
        (hist[i].op \in Facade /\ ~IsError(hist[i].ret)) =>
            LET w == hist[i].ret.weekday
                j == ConversionJdn(hist[i])
            IN  /\ w.number \in 0..6
                /\ w.number = j % 7
                /\ Len(arabicDays) = 7 /\ Len(persianDays) = 7 /\ Len(englishDays) = 7
                /\ w.ar = arabicDays[w.number + 1]
                /\ w.fa = persianDays[w.number + 1]
                /\ w.en = englishDays[w.number + 1]
                /\ englishDays[1] = "Monday"
                /\ hist[i].op = "gregorianToHijri" =>
                      LET n    == NextGregorianDay(hist[i].arg)
                          next == gregorianToHijri(n.y, n.m, n.d)
                      IN  /\ ~IsError(next)
                          /\ next.weekday.number = (w.number + 1) % 7

\* C19 witness: gregorianToHijri returned a Sunday, weekday number 6, and the
\* next Gregorian day has weekday number 0.
C19_Witness ==
    \E i \in Calls("gregorianToHijri") :
        /\ ~IsError(hist[i].ret)
        /\ hist[i].ret.weekday.number = 6
        /\ hist[i].ret.weekday.en = "Sunday"
        /\ LET n == NextGregorianDay(hist[i].arg)
           IN  gregorianToHijri(n.y, n.m, n.d).weekday.number = 0

\* the sum of getTabularYearLength over the n years from s on
RECURSIVE TabularSpanDays(_, _)
TabularSpanDays(s, n) ==
    IF n = 0 THEN 0 ELSE getTabularYearLength(s) + TabularSpanDays(s + 1, n - 1)

\* C20: tabular cycle invariant: for every start year s >= 1 the sum of
\* getTabularYearLength over the 30 consecutive years s..s+29 is exactly
\* 10631, and hijriToJulianTabular(y + 30, m, d) - hijriToJulianTabular(y, m, d)
\* = 10631 for every tabular date with y + 30 <= 5000.
C20_CycleInvariant ==
    \A i \in 1..Len(hist) :
        LET a == hist[i].arg
        IN  /\ (hist[i].op = "getTabularYearLength" /\ a.y >= 1) =>
                  /\ hist[i].ret.n \in {354, 355}
                  /\ hist[i].ret.n + TabularSpanDays(a.y + 1, 29) = 10631
            /\ (hist[i].op = "hijriToJulianTabular" /\ TabularHijri(a)
                  /\ a.y + 30 <= 5000) =>
                  LET later == hijriToJulianTabular(a.y + 30, a.m, a.d)
                  IN  /\ ~IsError(hist[i].ret)
                      /\ ~IsError(later)
                      /\ later.j - hist[i].ret.j = 10631

\* C20 witness: hijriToJulianTabular converted the 30th day of the twelfth
\* month of a tabular leap year, and the same date 30 years later is 10631
\* days later.
C20_Witness ==
    \E i \in Calls("hijriToJulianTabular") :
        /\ TabularHijri(hist[i].arg)
        /\ hist[i].arg.y + 30 <= 5000
        /\ hist[i].arg.m = 12
        /\ hist[i].arg.d = 30
        /\ hijriToJulianTabular(hist[i].arg.y + 30, 12, 30).j - hist[i].ret.j = 10631
        /\ TabularSpanDays(hist[i].arg.y, 30) = 10631

\* the positions of the leap years within the 30-year cycle
LeapPositions == {2, 5, 7, 10, 13, 16, 18, 21, 24, 26, 29}

\* the sum of getTabularMonthLength(y, m) over the months 1..m
RECURSIVE TabularMonthsDays(_, _)
TabularMonthsDays(y, m) ==
    IF m = 0 THEN 0 ELSE TabularMonthsDays(y, m - 1) + getTabularMonthLength(y, m)

\* C21: tabular leap rule and lengths: isTabularLeapYear(y) is true exactly
\* when ((y - 1) mod 30) + 1 is in {2,5,7,10,13,16,18,21,24,26,29}; the months
\* 1..11 alternate 30, 29, ..., 30 and month 12 has 30 days iff the year is
\* leap, else 29; and getTabularYearLength(y), 355 if leap and else 354, is
\* the sum of getTabularMonthLength(y, m) over m = 1..12.
C21_TabularLeapRule ==
    \A i \in 1..Len(hist) :
        LET a    == hist[i].arg
            leap == ((a.y - 1) % 30) + 1 \in LeapPositions
        IN  /\ (hist[i].op = "isTabularLeapYear" /\ a.y >= 1) =>
                  (hist[i].ret.b <=> leap)
            /\ (hist[i].op = "getTabularMonthLength" /\ a.y >= 1 /\ a.m \in 1..12) =>
                  /\ ~IsError(hist[i].ret)
                  /\ hist[i].ret.n = (IF a.m = 12 THEN (IF leap THEN 30 ELSE 29)
                                      ELSE IF a.m % 2 = 1 THEN 30 ELSE 29)
            /\ (hist[i].op = "getTabularYearLength" /\ a.y >= 1) =>
                  /\ hist[i].ret.n = (IF leap THEN 355 ELSE 354)
                  /\ hist[i].ret.n = TabularMonthsDays(a.y, 12)

\* C21 witness: getTabularMonthLength gave the twelfth month of a year at a
\* leap position of the cycle 30 days, and the year has 355 days.
C21_Witness ==
    \E i \in Calls("getTabularMonthLength") :
        /\ hist[i].arg.y >= 1
        /\ hist[i].arg.m = 12
        /\ ((hist[i].arg.y - 1) % 30) + 1 \in LeapPositions
        /\ hist[i].ret.n = 30
        /\ getTabularYearLength(hist[i].arg.y) = 355

\* a month 1..12 beyond the recorded months of a year of the table
BeyondRecorded(y, m) ==
    /\ y \in DOMAIN officialData
    /\ m \in 1..12
    /\ m > Len(officialData[y])

\* C22: incomplete table years degrade gracefully: every recorded month
\* length is 29 or 30 and no year has more than 12 entries; for a month beyond
\* the sequence of a year shorter than 12 (1448 has 10 months),
\* hasOfficialData(y, m) is false and getOfficialMonthLength(y, m) is null, and
\* hijriToGregorian and hijriToJalaali convert the month with the tabular
\* engine and report source 'tabular'.
C22_IncompleteYears ==
    /\ \A y \in DOMAIN officialData :
          /\ Len(officialData[y]) <= 12
          /\ \A m \in 1..Len(officialData[y]) : officialData[y][m] \in {29, 30}
    /\ \A i \in 1..Len(hist) :
          LET a == hist[i].arg
              r == hist[i].ret
          IN  (hist[i].op \in {"hijriToGregorian", "hijriToJalaali"}
                 /\ isValidHijriDate(a.y, a.m, a.d) /\ BeyondRecorded(a.y, a.m)) =>
                  /\ ~hasOfficialData(a.y, a.m)
                  /\ getOfficialMonthLength(a.y, a.m) = NULL
                  /\ ~IsError(r)
                  /\ r.source = "tabular"
                  /\ LET j == hijriToJulianTabular(a.y, a.m, a.d).j
                     IN  SameDate(r, IF hist[i].op = "hijriToGregorian"
                                     THEN julianToGregorian(j)
                                     ELSE julianToJalaali(j))

\* C22 witness: hijriToJalaali converted a day of the twelfth month of 1448,
\* a year with ten recorded months, and reported 'tabular'.
C22_Witness ==
    \E i \in Calls("hijriToJalaali") :
        /\ IsDate(hist[i].arg, 1448, 12, 1)
        /\ BeyondRecorded(1448, 12)
        /\ Len(officialData[1448]) = 10
        /\ ~IsError(hist[i].ret)
        /\ hist[i].ret.source = "tabular"

\* the sum of getOfficialYearLength(k) for k = from..to
RECURSIVE OfficialYearLengths(_, _)
OfficialYearLengths(from, to) ==
    IF from > to THEN 0
    ELSE getOfficialYearLength(from) + OfficialYearLengths(from + 1, to)

\* the sum of getOfficialMonthLength(y, i) for i = 1..m
RECURSIVE OfficialMonthLengths(_, _)
OfficialMonthLengths(y, m) ==
    IF m < 1 THEN 0
    ELSE OfficialMonthLengths(y, m - 1) + getOfficialMonthLength(y, m)

Branch(y, m) ==
    IF y = getOfficialDataRange.minYear /\ m = 1 THEN "first month"
    ELSE IF y = getOfficialDataRange.minYear THEN "later month"
    ELSE "later year"

RecordedDatesNear(year) ==
    {<<y, m, d>> \in ((year - 1)..(year + 1)) \X (1..12) \X (1..30) :
        /\ y = year \/ (y = year - 1 /\ m = 12) \/ (y = year + 1 /\ m = 1)
        /\ hasOfficialData(y, m)
        /\ d <= getOfficialMonthLength(y, m)}

\* the call i is the only call made, on the value drawn as input
OnInput(i) == i = 1 /\ Len(hist) = 1

\* C24: official inverse walk: julianToHijriWithOfficialData(j, nearYear)
\* returns null when j is before the anchor or at or after the anchor plus the
\* total of the recorded days; otherwise it returns the unique (y, m, d) with
\* minYear <= y <= maxYear, hasOfficialData(y, m),
\* 1 <= d <= getOfficialMonthLength(y, m) and
\* hijriToJulianWithOfficialData(y, m, d) = j; the result does not depend on
\* nearYear.  Uniqueness among the recorded dates of the year returned and
\* of the two months next to it, and the independence of nearYear, are
\* compared for the day numbers drawn as input.
C24_InverseWalk ==
    \A i \in Calls("julianToHijriWithOfficialData") :
        LET j     == hist[i].arg.j
            r     == hist[i].ret
            range == getOfficialDataRange
        IN  /\ ~Covered(j) => r.kind = "null"
            /\ Covered(j) =>
                  /\ r.kind = "hijri"
                  /\ r.y >= range.minYear /\ r.y <= range.maxYear
                  /\ hasOfficialData(r.y, r.m)
                  /\ r.d >= 1 /\ r.d <= getOfficialMonthLength(r.y, r.m)
                  /\ hijriToJulianWithOfficialData(r.y, r.m, r.d).j = j
            /\ OnInput(i) =>
                  /\ Covered(j) =>
                        \A t \in RecordedDatesNear(r.y) :
                            hijriToJulianWithOfficialData(t[1], t[2], t[3]).j = j
                                => t = <<r.y, r.m, r.d>>
                  /\ \A nearYear \in {0, range.minYear, 1446,
                                       range.maxYear, 5001} :
                        julianToHijriWithOfficialData(j, nearYear) = r

\* C24 witness: julianToHijriWithOfficialData converted the last covered day
\* to a recorded date of the last year of the table, and the next day to null.
C24_Witness ==
    \E i \in Calls("julianToHijriWithOfficialData") :
        /\ Covered(hist[i].arg.j)
        /\ ~Covered(hist[i].arg.j + 1)
        /\ hist[i].ret.kind = "hijri"
        /\ hist[i].ret.y = getOfficialDataRange.maxYear
        /\ julianToHijriWithOfficialData(hist[i].arg.j + 1, 1448).kind = "null"

\* C25: getOfficialYearLength(year) returns 354 or 355 for every year that
\* has an entry in the official table, and null for every year that has none.
C25_OfficialYearLength ==
    \A i \in Calls("getOfficialYearLength") :
        IF hist[i].arg.y \in DOMAIN officialData
        THEN hist[i].ret.kind = "number" /\ hist[i].ret.n \in {354, 355}
        ELSE hist[i].ret.kind = "null"

\* C26: Gregorian -> Hijri -> Gregorian round trip over the whole range: for
\* every valid Gregorian date g on or after the Hijri epoch whose Hijri year
\* is at most 5000, hijriToGregorian applied to the date gregorianToHijri(g)
\* returned gives g back, and both calls report the same source.
C26_GregorianHijriRoundTrip ==
    \A i \in Calls("gregorianToHijri") :
        (GregorianSinceEpoch(hist[i].arg) /\ ~IsError(hist[i].ret)
           /\ hist[i].ret.y <= 5000) =>
            LET h    == hist[i].ret
                back == hijriToGregorian(h.y, h.m, h.d)
            IN  /\ ~IsError(back)
                /\ SameDate(back, hist[i].arg)
                /\ back.source = h.source

\* the dates of year y that isValidHijriDate accepts
AcceptedHijriOfYear(y) ==
    {<<m, d>> \in (1..12) \X (1..30) : isValidHijriDate(y, m, d)}

\* C27: hijriToGregorian is injective on accepted input: two distinct Hijri
\* dates that isValidHijriDate accepts are converted to two distinct
\* Gregorian dates.
C27_Injective ==
    \A i \in Calls("hijriToGregorian") :
        LET a == hist[i].arg
        IN  isValidHijriDate(a.y, a.m, a.d) =>
                /\ ~IsError(hist[i].ret)
                /\ \A t \in AcceptedHijriOfYear(a.y) :
                      t # <<a.m, a.d>> =>
                          ~SameDate(hijriToGregorian(a.y, t[1], t[2]), hist[i].ret)

\* the constant jalaaliToJulian and julianToJalaali count the days from
JalaaliEpoch == 1948321

\* C28: julianToJalaali always returns a well-formed Jalaali date: for every
\* JDN in the supported range the result has 1 <= jm <= 12 and
\* 1 <= jd <= getJalaaliMonthDays(jy, jm).
C28_JalaaliWellFormed ==
    \A i \in Calls("julianToJalaali") :
        hist[i].arg.j >= JalaaliEpoch =>
            LET r == hist[i].ret
            IN  /\ r.m >= 1 /\ r.m <= 12
                /\ r.d >= 1 /\ r.d <= getJalaaliMonthDays(r.y, r.m)

\* the last year of the break table
LastBreak == breaks[Len(breaks)]

\* C29: Jalaali leap years are spaced as an intercalation rule requires: for
\* every year y >= 1 in the range of the break table, isJalaaliLeapYear(y) and
\* isJalaaliLeapYear(y + 1) are never both true, and the leap year after a
\* leap year comes 4 or 5 years later.
C29_LeapSpacing ==
    \A i \in Calls("isJalaaliLeapYear") :
        LET y == hist[i].arg.y
        IN  (y >= 1 /\ y + 5 < LastBreak /\ hist[i].ret.b) =>
                /\ ~isJalaaliLeapYear(y + 1)
                /\ \E gap \in {4, 5} :
                      /\ isJalaaliLeapYear(y + gap)
                      /\ \A k \in 1..(gap - 1) : ~isJalaaliLeapYear(y + k)

====
